---------------------------- MODULE Spec2Model ----------------------------
(***************************************************************************)
(* State-machine model of the Torn City API client (src/torn_api.py):      *)
(* the request pipeline TornAPI._make_request, the session manager         *)
(* TornAPI._get_session / TornAPI.close, and the rate limiter it calls.    *)
(*                                                                         *)
(* Scheduling is asyncio's: one task runs at a time and is interleaved     *)
(* with others only at an await that really suspends, so every action      *)
(* below is the code between two suspension points.                        *)
(*                                                                         *)
(* The class RateLimiter is imported from .rate_limiter                    *)
(* (src/torn_api.py:9), a file that is not part of src/.  Its model        *)
(* (the RateLimiter definitions) follows section 4.1 of spec.md.           *)
(***************************************************************************)
EXTENDS Naturals, Integers, Sequences, FiniteSets, TLC

(***************************************************************************)
(* Bounds of the model.                                                    *)
(***************************************************************************)
\* number of pipeline calls that are issued
NReq == 3
\* config.API_RATE_LIMIT (src/config.py:25) is read from the environment;
\* the model takes a small capacity so that bursts exceed it and several
\* callers wait at once
Capacity == 1
\* seconds that pass in one step of the clock
TickLen == 30
\* number of session handles that may be constructed
MaxSessions == 3
\* number of listings in a market feed
MaxFeed == 2

(***************************************************************************)
(* Program constants.                                                      *)
(***************************************************************************)
\* RateLimiter(config.API_RATE_LIMIT, 60)
W == 60
\* config.REQUEST_TIMEOUT, the ClientTimeout(total=...) of the session
REQUEST_TIMEOUT == 30

Req == 1 .. NReq

(***************************************************************************)
(* Values.  A decoded JSON value is [type, items]: items are the keys of   *)
(* a dict, the elements of a list; None is Python's None (and JSON null).  *)
(***************************************************************************)
None == [type |-> "None", items |-> {}]
DictOk == [type |-> "dict", items |-> {"name"}]
DictError == [type |-> "dict", items |-> {"error", "name"}]
ListError == [type |-> "list", items |-> {"error"}]
\* a body that response.json() cannot decode
Malformed == [type |-> "malformed", items |-> {}]
\* a body whose Content-Type is not application/json (an HTML page)
NotJson == [type |-> "mimetype", items |-> {}]

Bodies == {DictOk, DictError, ListError, None, Malformed, NotJson}
Statuses == {200, 201, 500}

\* config.TORN_API_KEY = os.getenv("TORN_API_KEY"): unset, empty, or a key
KeyValues == {"<None>", "", "secret"}

\* Python truthiness of self.api_key
Truthy(k) == k \notin {"<None>", ""}

\* what happened to a dispatched call
NoOutcome == [kind |-> "none", status |-> 0, body |-> None]
TimeoutOutcome == [kind |-> "timeout", status |-> 0, body |-> None]
ConnErrorOutcome == [kind |-> "connerror", status |-> 0, body |-> None]
CancelledOutcome == [kind |-> "cancelled", status |-> 0, body |-> None]
\* aiohttp.ClientSession(...) raised while the handle was constructed
SessionErrorOutcome == [kind |-> "sessionerror", status |-> 0, body |-> None]
\* session.get on a closed handle: RuntimeError("Session is closed")
SessionClosedOutcome == [kind |-> "sessionclosed", status |-> 0, body |-> None]
\* the call returned at the key check
NoKeyOutcome == [kind |-> "nokey", status |-> 0, body |-> None]
Response(st, b) == [kind |-> "response", status |-> st, body |-> b]

\* how a piece of code ends: it returns v, or raises exc
Return(v) == [k |-> "ret", v |-> v, exc |-> ""]
Raise(e) == [k |-> "exc", v |-> None, exc |-> e]
Pending == [k |-> "pending", v |-> None, exc |-> ""]

\* no call has just ended
Nothing == [out |-> NoOutcome, result |-> Pending]

\* the classes caught by "except Exception"; asyncio.CancelledError derives
\* from BaseException and is not among them
ExceptionClasses == {"TimeoutError", "ClientError", "TypeError",
                     "JSONDecodeError", "RuntimeError", "AttributeError",
                     "ContentTypeError"}

VARIABLES
    api_key,    \* self.api_key
    tokens,     \* rate limiter: tokens available now
    refills,    \* rate limiter: age in seconds of each consumed token
    queue,      \* rate limiter: FIFO queue of suspended callers
    session,    \* self.session: 0 is None, else an index of sessions
    sessions,   \* every ClientSession constructed: "open" or "closed"
    pc,         \* where each pipeline call stands
    elapsed,    \* seconds since the call was dispatched
    sess,       \* the session handle the call was dispatched over
    last,       \* the call that has just ended and whose caller has not
                \* run on yet: what happened on the network (out) and how
                \* _make_request ended (result)
    recent,     \* history: age of each acquisition completed less than W ago
    grantSeq,   \* history: the calls in the order acquire() returned, each
                \* with whether it had been suspended
    closeRaised, \* history: close() raised
    calls,      \* history: the pipeline calls each invocation has made
    sent,       \* history: the requests each pipeline call has sent
    params,     \* the query parameters of each pipeline call
    adapter,    \* the public operation that was invoked
    arg,        \* the identifier it was invoked with
    apc,        \* where the invocation stands
    outs,       \* what happened to each pipeline call it has made
    ares,       \* how the invocation ended, and the error records it wrote
    command,    \* the slash command that was invoked
    cpc,        \* where the command stands
    looked,     \* what each lookup of the command handed back
    replies     \* the embeds the command has sent

vars == <<api_key, tokens, refills, queue, session, sessions, pc, elapsed,
          sess, last, recent, grantSeq, closeRaised, calls, sent, params,
          adapter, arg, apc, outs, ares, command, cpc, looked, replies>>

limiterVars == <<tokens, refills, queue, recent, grantSeq>>
sessionVars == <<session, sessions>>
callVars == <<elapsed, sess>>
adapterVars == <<adapter, arg, apc, outs, ares>>
countVars == <<calls, sent, params>>
commandVars == <<command, cpc, looked, replies>>

(***************************************************************************)
(* Sequences of ages.                                                      *)
(***************************************************************************)
RECURSIVE AgeAll(_, _, _)
\* every age of s advanced by d, those that reach limit dropped
AgeAll(s, d, limit) ==
    IF s = <<>> THEN <<>>
    ELSE LET rest == AgeAll(Tail(s), d, limit)
         IN IF Head(s) + d >= limit THEN rest ELSE <<Head(s) + d>> \o rest

Min(a, b) == IF a < b THEN a ELSE b

(***************************************************************************)
(* Session manager: TornAPI._get_session and TornAPI.close.                *)
(***************************************************************************)
\* self.session is None or self.session.closed
NeedsNew(s, ss) == IF s = 0 THEN TRUE ELSE ss[s] = "closed"

\* (mutant) a handle is constructed by every call
_get_session_AlwaysNew(s, ss) ==
    [session |-> Len(ss) + 1, sessions |-> Append(ss, "open")]

\* (mutant) only "self.session is None" is tested
_get_session_NoClosedCheck(s, ss) ==
    IF s = 0
    THEN [session |-> Len(ss) + 1, sessions |-> Append(ss, "open")]
    ELSE [session |-> s, sessions |-> ss]

\* _get_session: the handle returned and the handles that then exist
_get_session(s, ss) ==
    IF NeedsNew(s, ss)
    THEN [session |-> Len(ss) + 1, sessions |-> Append(ss, "open")]
    ELSE [session |-> s, sessions |-> ss]

\* (mutant) "self.session and" is missing: None has no attribute closed
close_NoNoneCheck(s, ss) ==
    IF s = 0
    THEN [session |-> s, sessions |-> ss, raised |-> TRUE]
    ELSE IF ss[s] # "closed"
    THEN [session |-> s, sessions |-> [ss EXCEPT ![s] = "closed"],
          raised |-> FALSE]
    ELSE [session |-> s, sessions |-> ss, raised |-> FALSE]

\* close(): the handles afterwards, and whether the call raised
close(s, ss) ==
    IF s # 0 /\ ss[s] # "closed"
    THEN [session |-> s, sessions |-> [ss EXCEPT ![s] = "closed"],
          raised |-> FALSE]
    ELSE [session |-> s, sessions |-> ss, raised |-> FALSE]

(***************************************************************************)
(* Request pipeline: TornAPI._make_request.                                *)
(***************************************************************************)
\* the params argument of a pipeline call, as the operations pass it: a
\* dict literal with the selections (or the empty dict made at line 47)
CallerParams == {<<"selections", "basic">>}

\* d[k] = v on a dict held as a set of <<name, value>> pairs
DictSet(d, k, v) == {q \in d : q[1] # k} \cup {<<k, v>>}

\* what str(e) holds for an exception of class exc.  The text of
\* aiohttp.ContentTypeError (a ClientResponseError) is
\* "<status>, message=..., url=<request_info.real_url>": the URL the
\* request was sent to, query string included
ExceptionText(exc) ==
    IF exc = "ContentTypeError" THEN {"status", "message", "real_url"}
    ELSE {"message"}

\* what the try statement does with an outcome that is not a response
TryBodyNoResponse(o) ==
    CASE o.kind = "timeout" -> Raise("TimeoutError")
      [] o.kind = "connerror" -> Raise("ClientError")
      [] o.kind = "cancelled" -> Raise("CancelledError")
      [] OTHER -> Raise("RuntimeError")

\* (mutant) the payload is returned without the test for 'error'
TryBody_NoErrorCheck(o) ==
    IF o.kind # "response" THEN TryBodyNoResponse(o)
    ELSE IF o.status = 200
    THEN IF o.body.type = "mimetype"
         THEN Raise("ContentTypeError")
         ELSE IF o.body.type = "malformed"
         THEN Raise("JSONDecodeError")
         ELSE Return(o.body)
    ELSE Return(None)

\* (mutant) the payload is decoded whatever the status
TryBody_NoStatusCheck(o) ==
    IF o.kind # "response" THEN TryBodyNoResponse(o)
    ELSE IF o.body.type = "mimetype"
    THEN Raise("ContentTypeError")
    ELSE IF o.body.type = "malformed"
    THEN Raise("JSONDecodeError")
    ELSE IF o.body.type \notin {"dict", "list"}
    THEN Raise("TypeError")
    ELSE IF "error" \in o.body.items
    THEN IF o.body.type = "dict" THEN Return(None) ELSE Raise("TypeError")
    ELSE Return(o.body)

\* the body of the try statement, given what the network did
TryBody(o) ==
    IF o.kind # "response" THEN TryBodyNoResponse(o)
    ELSE IF o.status = 200
    THEN IF o.body.type = "mimetype"
         THEN Raise("ContentTypeError")       \* response.json()
         ELSE IF o.body.type = "malformed"
         THEN Raise("JSONDecodeError")        \* response.json()
         ELSE IF o.body.type \notin {"dict", "list"}
         THEN Raise("TypeError")              \* 'error' in None
         ELSE IF "error" \in o.body.items
         THEN IF o.body.type = "dict"
              THEN Return(None)
              ELSE Raise("TypeError")         \* data['error'] of a list
         ELSE Return(o.body)
    ELSE Return(None)

\* (mutant) only the timeout is caught
ExceptHandlers_TimeoutOnly(x) ==
    IF x.k = "exc" /\ x.exc = "TimeoutError" THEN Return(None) ELSE x

\* except asyncio.TimeoutError / except Exception
ExceptHandlers(x) ==
    IF x.k = "exc" /\ x.exc = "TimeoutError" THEN Return(None)
    ELSE IF x.k = "exc" /\ x.exc \in ExceptionClasses THEN Return(None)
    ELSE x

\* how _make_request ends once the call is past acquire()
MakeRequestResult(o) == ExceptHandlers(TryBody(o))

\* what the network can do to a call dispatched e seconds ago: the total
\* timeout of the session fires at REQUEST_TIMEOUT
NetworkOutcomes(e) ==
    (IF e >= REQUEST_TIMEOUT THEN {TimeoutOutcome} ELSE {})
    \cup (IF e <= REQUEST_TIMEOUT
          THEN {Response(st, b) : st \in Statuses, b \in Bodies}
               \cup {ConnErrorOutcome}
          ELSE {})
    \cup {CancelledOutcome}

(***************************************************************************)
(* Endpoint adapters and the market normaliser: the public operations of   *)
(* TornAPI.  A payload that an adapter projects is [type, items, elems,    *)
(* at]: at is the value found under the projected key ('members', 'items', *)
(* 'itemmarket' or 'bazaar') when that key is among items; elems are the   *)
(* elements of a list.  Identifiers are written as their text, "None"      *)
(* being Python's None (the field is null or missing).                     *)
(***************************************************************************)
Val(t, i, e) == [type |-> t, items |-> i, elems |-> e]
EmptyDict == Val("dict", {}, <<>>)
EmptyList == Val("list", {}, <<>>)
\* the record of one item, user or member
Entry == Val("dict", {"name"}, <<>>)

IdValues == {"None", "0", "7"}
RequestedIds == {"0", "7"}

\* bool(v) of an identifier
TruthyId(v) == v \notin {"None", "0"}

\* an element of a feed that is not a dict
NotADict == [isdict |-> FALSE, item_id |-> "None", ID |-> "None",
             itemID |-> "None"]
Listings ==
    {[isdict |-> TRUE, item_id |-> a, ID |-> b, itemID |-> c] :
        a \in IdValues, b \in IdValues, c \in IdValues} \cup {NotADict}
\* the bazaar endpoint names the item of a listing under ID
BazaarListings ==
    {[isdict |-> TRUE, item_id |-> "None", ID |-> b, itemID |-> "None"] :
        b \in IdValues} \cup {NotADict}

SeqsUpTo(S, n) == UNION {[1 .. k -> S] : k \in 0 .. n}

\* a dict payload whose projected key key holds v
Payload(key, v) ==
    [type |-> "dict", items |-> {key, "name"}, elems |-> <<>>, at |-> v]

\* the values an endpoint may hold under the projected key
FieldValues(feeds) ==
    {Val("list", {}, f) : f \in feeds}
    \cup {Val("dict", {}, <<>>), Val("dict", {"7"}, <<>>), None}

\* bool(data) of a decoded payload
TruthyData(d) ==
    /\ d.type \in {"dict", "list"}
    /\ \/ d.items # {}
       \/ IF "elems" \in DOMAIN d THEN d.elems # <<>> ELSE FALSE

\* how a public operation ends: ret, and the error records it wrote itself
Ended(r, n) == [ret |-> r, errors |-> n]
NotEnded == Ended(Pending, 0)

\* (mutant) the operation has no except clause
TryExcept_NoHandler(body, onexc) == Ended(body, 0)

\* try: body / except Exception as e: logger.error(...); return onexc
TryExcept(body, onexc) ==
    IF body.k = "exc" /\ body.exc \in ExceptionClasses
    THEN Ended(Return(onexc), 1)
    ELSE Ended(body, 0)

\* get_user_profile and get_faction_info: return data
get_user_profile(p) == TryExcept(p, None)
get_faction_info(p) == TryExcept(p, None)

\* (mutant) data.get('members') if data else None
MembersOf_NoDefault(data) ==
    IF ~TruthyData(data) THEN Return(None)
    ELSE IF data.type # "dict" THEN Raise("AttributeError")
    ELSE IF "members" \in data.items THEN Return(data.at)
    ELSE Return(None)

\* data.get('members', {}) if data else {}
MembersOf(data) ==
    IF ~TruthyData(data) THEN Return(EmptyDict)
    ELSE IF data.type # "dict" THEN Raise("AttributeError")
    ELSE IF "members" \in data.items THEN Return(data.at)
    ELSE Return(EmptyDict)

get_faction_members(p) ==
    TryExcept(IF p.k = "exc" THEN p ELSE MembersOf(p.v), EmptyDict)

\* utils.safe_get: the value under key, default when it cannot be found
safe_get(data, key, default) ==
    IF data.type = "dict" /\ key \in data.items THEN data.at ELSE default

\* safe_get(data, 'items', {}).get(str(item_id), {})
ItemOf(data, item_id) ==
    LET its == safe_get(data, "items", EmptyDict)
    IN IF its.type # "dict" THEN Raise("AttributeError")
       ELSE IF item_id \in its.items THEN Return(Entry)
       ELSE Return(EmptyDict)

get_item_info(item_id, p) ==
    TryExcept(IF p.k = "exc" THEN p ELSE ItemOf(p.v, item_id), None)

\* 'bazaar' in data, for a dict or a list
HasBazaar(data) == TruthyData(data) /\ "bazaar" \in data.items

\* if data and 'bazaar' in data: return data.get('bazaar', []) else []
BazaarOf(data) ==
    IF ~HasBazaar(data) THEN Return(EmptyList)
    ELSE IF data.type # "dict" THEN Raise("AttributeError")
    ELSE Return(data.at)

get_player_bazaar(p) ==
    TryExcept(IF p.k = "exc" THEN p ELSE BazaarOf(p.v), EmptyList)

\* item.get('item_id') or item.get('ID') or item.get('itemID')
item_market_id(item) ==
    IF TruthyId(item.item_id) THEN item.item_id
    ELSE IF TruthyId(item.ID) THEN item.ID
    ELSE item.itemID

\* the loop over the primary feed
PrimaryMatch(item, item_id) ==
    item.isdict /\ item_market_id(item) = item_id

\* the loop over the bazaar feed
BazaarMatch(item, item_id) == item.isdict /\ item.ID = item_id

\* market_items = data.get('itemmarket', data), when it is a list
PrimaryFeed(data) ==
    IF TruthyData(data) /\ data.type = "dict"
    THEN LET market_items ==
                 IF "itemmarket" \in data.items THEN data.at ELSE data
         IN IF market_items.type = "list" THEN market_items.elems
            ELSE <<>>
    ELSE <<>>

\* get_item_market up to the fallback: the listings found in the primary
\* feed are returned; with none the secondary endpoint is asked
MarketPrimary(item_id, p) ==
    IF p.k = "exc" THEN [fallback |-> FALSE, res |-> TryExcept(p, EmptyList)]
    ELSE LET item_listings ==
                 SelectSeq(PrimaryFeed(p.v),
                           LAMBDA item : PrimaryMatch(item, item_id))
         IN IF item_listings # <<>>
            THEN [fallback |-> FALSE,
                  res |-> Ended(Return(Val("list", {}, item_listings)), 0)]
            ELSE [fallback |-> TRUE, res |-> NotEnded]

\* the listings of the bazaar payload that name item_id
BazaarSelect(data, item_id) ==
    IF ~HasBazaar(data) THEN Return(EmptyList)
    ELSE IF data.type # "dict" THEN Raise("AttributeError")
    ELSE IF data.at.type = "None" THEN Raise("TypeError")
    ELSE IF data.at.type = "list"
    THEN Return(Val("list", {},
                    SelectSeq(data.at.elems,
                              LAMBDA item : BazaarMatch(item, item_id))))
    ELSE Return(EmptyList)

\* get_item_market from the fallback on
MarketSecondary(item_id, p) ==
    TryExcept(IF p.k = "exc" THEN p ELSE BazaarSelect(p.v, item_id),
              EmptyList)

\* how _make_request ends, whatever happened to the call
PipelineResult(o) ==
    IF o.kind = "nokey" THEN Return(None) ELSE MakeRequestResult(o)

\* (mutant) a status other than 200 is not logged
TryBodyLogs_Non200Silent(o) ==
    IF o.kind = "response" /\ o.status = 200
          /\ o.body.type = "dict" /\ "error" \in o.body.items
    THEN 1 ELSE 0

\* the logger.error calls that the try body completes: "API error" for a
\* dict that has the key 'error' (for a list data['error'] raises before
\* the record is written), "HTTP error" for a status other than 200
TryBodyLogs(o) ==
    IF o.kind # "response" THEN 0
    ELSE IF o.status = 200
    THEN IF o.body.type = "dict" /\ "error" \in o.body.items THEN 1 ELSE 0
    ELSE 1

\* the logger.error call of the except clause that catches x
HandlerLogs(x) ==
    IF x.k = "exc" /\ x.exc \in ExceptionClasses THEN 1 ELSE 0

\* the error records _make_request writes for a call
ErrorRecords(o) ==
    IF o.kind = "nokey" THEN 1
    ELSE TryBodyLogs(o) + HandlerLogs(TryBody(o))

\* what the error records written for a call hold besides fixed text:
\* url is f"{self.base_url}/{endpoint}", without the query string
LoggedParts(o) ==
    IF o.kind = "nokey" THEN {}
    ELSE LET t == TryBody(o)
         IN IF t.k = "exc" /\ t.exc \in ExceptionClasses
            THEN IF t.exc = "TimeoutError" THEN {"url"}
                 ELSE {"url"} \cup ExceptionText(t.exc)
            ELSE IF TryBodyLogs(o) = 0 THEN {}
            ELSE IF o.status = 200 THEN {"data['error']"}
            ELSE {"status", "url"}

\* the part spells out the query parameters ps, the key among them
HoldsKey(part, ps) == part = "real_url" /\ \E q \in ps : q[1] = "key"

(***************************************************************************)
(* Rate limiter (section 4.1 of spec.md): Capacity tokens, each consumed   *)
(* token returns W seconds after it was taken, suspended callers wait in   *)
(* a FIFO queue.                                                           *)
(***************************************************************************)
\* (mutant) a caller that finds a token takes it past the queue
CanGrantNow_Barging == tokens > 0

\* acquire() returns without suspending
CanGrantNow == queue = <<>> /\ tokens > 0

\* (mutant) a token is back one clock step early
RefillAfter_Early == W - TickLen

\* a consumed token is back after this many seconds
RefillAfter == W

\* (mutant) consumed tokens never come back
RateLimiter_refill_Never(tk, rf, d) == [tokens |-> tk, refills |-> rf]

\* the tokens and the outstanding refills after d more seconds
RateLimiter_refill(tk, rf, d) ==
    LET left == AgeAll(rf, d, RefillAfter)
    IN [tokens |-> Min(Capacity, tk + (Len(rf) - Len(left))),
        refills |-> left]

\* the token is taken and acquire() returns to call r
RateLimiter_grant(r, suspended) ==
    /\ tokens' = tokens - 1
    /\ refills' = Append(refills, 0)
    /\ recent' = Append(recent, 0)
    /\ grantSeq' = Append(grantSeq, [r |-> r, waited |-> suspended])
    /\ pc' = [pc EXCEPT ![r] = "granted"]

\* acquire() as called by r
RateLimiter_acquire(r) ==
    IF CanGrantNow
    THEN RateLimiter_grant(r, FALSE) /\ UNCHANGED queue
    ELSE /\ queue' = Append(queue, r)
         /\ pc' = [pc EXCEPT ![r] = "waiting"]
         /\ UNCHANGED <<tokens, refills, recent, grantSeq>>

(***************************************************************************)
(* Actions.                                                                *)
(***************************************************************************)
Init ==
    /\ api_key \in KeyValues
    /\ tokens = Capacity
    /\ refills = <<>>
    /\ queue = <<>>
    /\ session = 0
    /\ sessions = <<>>
    /\ pc = [r \in Req |-> "idle"]
    /\ elapsed = [r \in Req |-> 0]
    /\ sess = [r \in Req |-> 0]
    /\ last = Nothing
    /\ recent = <<>>
    /\ grantSeq = <<>>
    /\ closeRaised = FALSE
    /\ calls = [r \in Req |-> 0]
    /\ sent = [r \in Req |-> 0]
    /\ params = [r \in Req |-> {}]
    /\ adapter = "none"
    /\ arg = "None"
    /\ apc = "off"
    /\ outs = <<>>
    /\ ares = NotEnded
    /\ command = "none"
    /\ cpc = "off"
    /\ looked = <<>>
    /\ replies = <<>>

\* (mutant) a call that failed is dispatched again
Finish_Retry(r, o) ==
    /\ IF MakeRequestResult(o) = Return(None)
       THEN pc' = [pc EXCEPT ![r] = "granted"] /\ UNCHANGED last
       ELSE /\ pc' = [pc EXCEPT ![r] = "done"]
            /\ last' = [out |-> o, result |-> MakeRequestResult(o)]
    /\ elapsed' = [elapsed EXCEPT ![r] = 0]
    /\ sess' = [sess EXCEPT ![r] = 0]

\* call r ends with outcome o
Finish(r, o) ==
    /\ pc' = [pc EXCEPT ![r] = "done"]
    /\ last' = [out |-> o, result |-> MakeRequestResult(o)]
    /\ elapsed' = [elapsed EXCEPT ![r] = 0]
    /\ sess' = [sess EXCEPT ![r] = 0]

\* (mutant) the key check is missing
MakeRequestEnter_NoKeyCheck(r) ==
    /\ last = Nothing
    /\ pc[r] = "idle"
    /\ IF r = 1 THEN TRUE ELSE pc[r - 1] # "idle"
    /\ RateLimiter_acquire(r)
    /\ calls' = [calls EXCEPT ![r] = @ + 1]
    /\ params' = [params EXCEPT ![r] = CallerParams]
    /\ UNCHANGED last
    /\ UNCHANGED <<adapterVars, commandVars,
                   sent, api_key, sessionVars, callVars,
                   closeRaised>>

\* _make_request up to its first suspension: the key check and acquire().
\* Calls are numbered in the order they are made.
MakeRequestEnter(r) ==
    /\ last = Nothing
    /\ pc[r] = "idle"
    /\ IF r = 1 THEN TRUE ELSE pc[r - 1] # "idle"
    /\ IF ~Truthy(api_key)
       THEN /\ pc' = [pc EXCEPT ![r] = "done"]
            /\ last' = [out |-> NoKeyOutcome, result |-> Return(None)]
            /\ UNCHANGED <<limiterVars, elapsed>>
       ELSE /\ RateLimiter_acquire(r)
            /\ UNCHANGED last
            /\ UNCHANGED elapsed
    /\ calls' = [calls EXCEPT ![r] = @ + 1]
    /\ params' = [params EXCEPT ![r] = CallerParams]
    /\ UNCHANGED <<adapterVars, commandVars,
                   sent, api_key, sessionVars, sess, closeRaised>>

\* the rate limiter resumes the caller at the head of its queue
RateLimiter_wake ==
    /\ last = Nothing
    /\ queue # <<>>
    /\ tokens > 0
    /\ RateLimiter_grant(Head(queue), TRUE)
    /\ queue' = Tail(queue)
    /\ UNCHANGED last
    /\ UNCHANGED <<adapterVars, commandVars,
                   countVars, api_key, sessionVars, callVars,
                   closeRaised>>

\* (mutant) the request is dispatched without waiting for the grant
Dispatch_BeforeGrant(r) ==
    /\ last = Nothing
    /\ pc[r] \in {"waiting", "granted"}
    /\ \/ LET g == _get_session(session, sessions)
          IN /\ Len(g.sessions) <= MaxSessions
             /\ session' = g.session
             /\ sessions' = g.sessions
             /\ IF g.sessions[g.session] = "open"
                THEN /\ pc' = [pc EXCEPT ![r] = "inflight"]
                     /\ sess' = [sess EXCEPT ![r] = g.session]
                     /\ sent' = [sent EXCEPT ![r] = @ + 1]
                     /\ UNCHANGED last
                     /\ UNCHANGED elapsed
                ELSE Finish(r, SessionClosedOutcome) /\ UNCHANGED sent
       \/ /\ NeedsNew(session, sessions)
          /\ Finish(r, SessionErrorOutcome)
          /\ UNCHANGED <<sessionVars, sent>>
    /\ params' = [params EXCEPT ![r] = DictSet(@, "key", api_key)]
    /\ UNCHANGED <<adapterVars, commandVars,
                   calls, api_key, limiterVars, closeRaised>>

\* after acquire(): the key goes into params, the session is obtained and
\* session.get starts the call
Dispatch(r) ==
    /\ last = Nothing
    /\ pc[r] = "granted"
    /\ \/ LET g == _get_session(session, sessions)
          IN /\ Len(g.sessions) <= MaxSessions
             /\ session' = g.session
             /\ sessions' = g.sessions
             /\ IF g.sessions[g.session] = "open"
                THEN /\ pc' = [pc EXCEPT ![r] = "inflight"]
                     /\ sess' = [sess EXCEPT ![r] = g.session]
                     /\ sent' = [sent EXCEPT ![r] = @ + 1]
                     /\ UNCHANGED last
                     /\ UNCHANGED elapsed
                ELSE Finish(r, SessionClosedOutcome) /\ UNCHANGED sent
       \/ /\ NeedsNew(session, sessions)
          /\ Finish(r, SessionErrorOutcome)
          /\ UNCHANGED <<sessionVars, sent>>
    /\ params' = [params EXCEPT ![r] = DictSet(@, "key", api_key)]
    /\ UNCHANGED <<adapterVars, commandVars,
                   calls, api_key, limiterVars, closeRaised>>

\* (mutant) a call that ends without a payload hands its token back
Complete_Refund(r) ==
    /\ last = Nothing
    /\ pc[r] = "inflight"
    /\ \E o \in NetworkOutcomes(elapsed[r]) :
          /\ Finish(r, o)
          /\ IF MakeRequestResult(o) \in {Return(None), Raise("CancelledError")}
                 /\ refills # <<>>
             THEN /\ tokens' = tokens + 1
                  /\ refills' = SubSeq(refills, 1, Len(refills) - 1)
             ELSE UNCHANGED <<tokens, refills>>
    /\ UNCHANGED <<queue, recent, grantSeq>>
    /\ UNCHANGED <<adapterVars, commandVars,
                   countVars, api_key, sessionVars, closeRaised>>

\* the call in flight ends: a response, a connection failure, the timeout
\* or a cancellation of the task
Complete(r) ==
    /\ last = Nothing
    /\ pc[r] = "inflight"
    /\ \E o \in NetworkOutcomes(elapsed[r]) : Finish(r, o)
    /\ UNCHANGED <<adapterVars, commandVars,
                   countVars, api_key, limiterVars, sessionVars,
                   closeRaised>>

\* TornAPI.close
Close ==
    LET c == close(session, sessions)
    IN /\ last = Nothing
       /\ session' = c.session
       /\ sessions' = c.sessions
       /\ closeRaised' = (closeRaised \/ c.raised)
       /\ UNCHANGED last
       /\ UNCHANGED <<adapterVars, commandVars,
                      countVars, api_key, limiterVars, pc,
                      callVars>>

\* TickLen seconds pass; no call stays in flight beyond its timeout
Tick ==
    /\ last = Nothing
    /\ \A r \in Req : pc[r] = "inflight" => elapsed[r] < REQUEST_TIMEOUT
    /\ LET f == RateLimiter_refill(tokens, refills, TickLen)
       IN /\ tokens' = f.tokens
          /\ refills' = f.refills
    /\ recent' = AgeAll(recent, TickLen, W)
    /\ elapsed' = [r \in Req |->
                     IF pc[r] = "inflight" THEN elapsed[r] + TickLen
                     ELSE elapsed[r]]
    /\ UNCHANGED last
    /\ UNCHANGED <<adapterVars, commandVars,
                   countVars, api_key, queue, grantSeq,
                   sessionVars, pc, sess,
                   closeRaised>>

\* _make_request returns: its caller runs on with the value (or the
\* exception) before any other task is scheduled
ReturnToCaller ==
    /\ last # Nothing
    /\ last' = Nothing
    /\ UNCHANGED <<adapterVars, commandVars,
                   countVars, api_key, limiterVars, sessionVars,
                   pc, callVars,
                   closeRaised>>

Next ==
    \/ \E r \in Req : MakeRequestEnter(r)
    \/ RateLimiter_wake
    \/ \E r \in Req : Dispatch(r)
    \/ \E r \in Req : Complete(r)
    \/ ReturnToCaller
    \/ Close
    \/ Tick

Spec == Init /\ [][Next]_vars

\* time passes, the event loop runs every task that can run, and the
\* network ends every call (at the latest by its timeout)
FairSpec ==
    /\ Spec
    /\ WF_vars(Tick)
    /\ WF_vars(RateLimiter_wake)
    /\ WF_vars(ReturnToCaller)
    /\ \A r \in Req : WF_vars(Complete(r))

(***************************************************************************)
(* One invocation of a public operation.  The pipeline is taken by what    *)
(* it hands to its caller: the outcome of each call is drawn from what     *)
(* the network, the session and the key check can do, and the result and   *)
(* the error records follow from it as in _make_request.                   *)
(***************************************************************************)
Adapters == {"get_user_profile", "get_faction_info", "get_faction_members",
             "get_item_info", "get_item_market", "get_player_bazaar"}

\* the key of the payload that the nth call of an operation looks up
ProjectedKey(op, n) ==
    CASE op = "get_faction_members" -> "members"
      [] op = "get_item_info" -> "items"
      [] op = "get_item_market" /\ n = 1 -> "itemmarket"
      [] op \in {"get_item_market", "get_player_bazaar"} -> "bazaar"
      [] OTHER -> "player_id"

\* the lists that the endpoint of the nth call may hold under that key
Feeds(op, n) ==
    CASE op = "get_item_market" /\ n = 1 -> SeqsUpTo(Listings, MaxFeed)
      [] op \in {"get_item_market", "get_player_bazaar"} ->
            SeqsUpTo(BazaarListings, MaxFeed)
      [] OTHER -> {<<>>}

\* the decoded payloads of the endpoint of the nth call
AdapterBodies(op, n) ==
    Bodies
    \cup {EmptyDict, EmptyList}
    \cup {Val("list", {}, <<l>>) : l \in BazaarListings}
    \cup {Payload(ProjectedKey(op, n), v) : v \in FieldValues(Feeds(op, n))}

\* what can happen to the nth pipeline call of an operation
AdapterOutcomes(op, n) ==
    IF ~Truthy(api_key) THEN {NoKeyOutcome}
    ELSE {TimeoutOutcome, ConnErrorOutcome, CancelledOutcome,
          SessionErrorOutcome, SessionClosedOutcome}
         \cup {Response(st, b) : st \in Statuses \ {200}, b \in Bodies}
         \cup {Response(200, b) : b \in AdapterBodies(op, n)}

\* an operation that makes one pipeline call, given how the call ended
SingleCall(op, id, p) ==
    CASE op = "get_user_profile" -> get_user_profile(p)
      [] op = "get_faction_info" -> get_faction_info(p)
      [] op = "get_faction_members" -> get_faction_members(p)
      [] op = "get_item_info" -> get_item_info(id, p)
      [] OTHER -> get_player_bazaar(p)

AdapterInit ==
    /\ api_key \in KeyValues
    /\ tokens = Capacity
    /\ refills = <<>>
    /\ queue = <<>>
    /\ pc = [r \in Req |-> "idle"]
    /\ elapsed = [r \in Req |-> 0]
    /\ sess = [r \in Req |-> 0]
    /\ last = Nothing
    /\ recent = <<>>
    /\ grantSeq = <<>>
    /\ closeRaised = FALSE
    /\ calls = [r \in Req |-> 0]
    /\ sent = [r \in Req |-> 0]
    /\ params = [r \in Req |-> {}]
    /\ adapter \in Adapters \cup {"close"}
    /\ IF adapter = "close"
       THEN \/ session = 0 /\ sessions = <<>>
            \/ session = 1 /\ sessions \in {<<"open">>, <<"closed">>}
       ELSE session = 0 /\ sessions = <<>>
    /\ arg \in RequestedIds
    /\ apc = "call1"
    /\ outs = <<>>
    /\ ares = NotEnded
    /\ command = "none"
    /\ cpc = "off"
    /\ looked = <<>>
    /\ replies = <<>>

\* the first (or only) pipeline call of the operation ends and the
\* operation runs on
AdapterCall1 ==
    /\ apc = "call1"
    /\ adapter \in Adapters
    /\ \E o \in AdapterOutcomes(adapter, 1) :
          /\ outs' = <<o>>
          /\ IF adapter = "get_item_market"
             THEN LET m == MarketPrimary(arg, PipelineResult(o))
                  IN /\ apc' = IF m.fallback THEN "call2" ELSE "done"
                     /\ ares' = m.res
             ELSE /\ apc' = "done"
                  /\ ares' = SingleCall(adapter, arg, PipelineResult(o))
    /\ UNCHANGED <<commandVars, adapter, arg>>
    /\ UNCHANGED <<api_key, limiterVars, sessionVars, pc, callVars, last,
                   closeRaised, countVars>>

\* the call of get_item_market to the secondary endpoint ends
AdapterCall2 ==
    /\ apc = "call2"
    /\ \E o \in AdapterOutcomes(adapter, 2) :
          /\ outs' = Append(outs, o)
          /\ ares' = MarketSecondary(arg, PipelineResult(o))
    /\ apc' = "done"
    /\ UNCHANGED <<commandVars, adapter, arg>>
    /\ UNCHANGED <<api_key, limiterVars, sessionVars, pc, callVars, last,
                   closeRaised, countVars>>

\* TornAPI.close as the invoked operation
AdapterClose ==
    LET c == close(session, sessions)
    IN /\ apc = "call1"
       /\ adapter = "close"
       /\ session' = c.session
       /\ sessions' = c.sessions
       /\ closeRaised' = c.raised
       /\ ares' = Ended(IF c.raised THEN Raise("AttributeError")
                        ELSE Return(None), 0)
       /\ apc' = "done"
       /\ UNCHANGED <<commandVars, adapter, arg, outs>>
       /\ UNCHANGED <<api_key, limiterVars, pc, callVars, last, countVars>>

AdapterNext == AdapterCall1 \/ AdapterCall2 \/ AdapterClose

AdapterSpec == AdapterInit /\ [][AdapterNext]_vars

(***************************************************************************)
(* The command layer (src/commands.py): one invocation of a slash command  *)
(* of TornCommands.  A lookup is a call of a public operation of TornAPI;  *)
(* what it hands back is drawn from what the operation can return.         *)
(***************************************************************************)
Commands == {"profile", "stats", "faction", "prices", "bazaar"}

\* (mutant) TornAPI with an operation get_user_stats
TornApiOperations_WithStats == Adapters \cup {"close", "get_user_stats"}

\* the public operations that the class TornAPI defines
TornApiOperations == Adapters \cup {"close"}

\* the operation a command calls first, and the one it calls after it
MainLookup(cmd) ==
    CASE cmd = "profile" -> "get_user_profile"
      [] cmd = "stats" -> "get_user_stats"
      [] cmd = "faction" -> "get_faction_info"
      [] cmd = "prices" -> "get_item_info"
      [] OTHER -> "get_user_profile"
SecondLookup(cmd) ==
    CASE cmd = "faction" -> "get_faction_members"
      [] cmd = "prices" -> "get_item_market"
      [] cmd = "bazaar" -> "get_player_bazaar"
      [] OTHER -> "none"

\* the value of 'cost' or 'price' in a listing: missing or null, a number,
\* or a text
NoField == [k |-> "none", n |-> 0]
Num(v) == [k |-> "int", n |-> v]
TextField == [k |-> "str", n |-> 0]
PriceFields == {NoField, TextField} \cup {Num(v) : v \in {0 - 5, 0, 50, 90}}

\* an element of the market data that is not a dict
NotAListing == [isdict |-> FALSE, cost |-> NoField, price |-> NoField]
PricedListings ==
    {[isdict |-> TRUE, cost |-> c, price |-> q] :
        c \in PriceFields, q \in PriceFields} \cup {NotAListing}

\* bool(v) of such a value
TruthyField(f) == f.k = "str" \/ (f.k = "int" /\ f.n # 0)

\* price = listing.get('cost', 0) or listing.get('price', 0)
ListingPrice(listing) ==
    IF TruthyField(listing.cost) THEN listing.cost ELSE listing.price

\* (mutant) if price: without the test price > 0
IsValidListing_AnyPrice(listing) ==
    listing.isdict /\ TruthyField(ListingPrice(listing))

\* if isinstance(listing, dict) ... if price and price > 0
IsValidListing(listing) ==
    /\ listing.isdict
    /\ TruthyField(ListingPrice(listing))
    /\ ListingPrice(listing).n > 0

\* price > 0 raises TypeError for a text
PriceRaises(listing) == listing.isdict /\ ListingPrice(listing).k = "str"

RECURSIVE InsertSorted(_, _)
InsertSorted(x, s) ==
    IF s = <<>> THEN <<x>>
    ELSE IF x < Head(s) THEN <<x>> \o s
    ELSE <<Head(s)>> \o InsertSorted(x, Tail(s))

\* sorted(prices)
RECURSIVE SortedPrices(_)
SortedPrices(s) ==
    IF s = <<>> THEN <<>> ELSE InsertSorted(Head(s), SortedPrices(Tail(s)))

RECURSIVE SumSeq(_)
SumSeq(s) == IF s = <<>> THEN 0 ELSE Head(s) + SumSeq(Tail(s))

\* the prices of valid_listings, in the order of the market data
ValidPrices(market) ==
    LET valid == SelectSeq(market, IsValidListing)
    IN [i \in 1 .. Len(valid) |-> ListingPrice(valid[i]).n]

\* what a command sends: an error embed (key_required, not_found, error)
\* or the data embed, with the list of lowest prices and the price
\* statistics when the prices command shows them
NoStats == [lowest |-> 0, highest |-> 0, average |-> 0, total |-> 0]
Reply(kind) == [kind |-> kind, lowest |-> <<>>, stats |-> NoStats]

\* the market part of the embed of the prices command
PricesEmbed(market_data) ==
    IF ~TruthyData(market_data) THEN Reply("data")
    ELSE IF \E i \in 1 .. Len(market_data.elems) :
                PriceRaises(market_data.elems[i])
    THEN Reply("data")
    ELSE LET prices == SortedPrices(ValidPrices(market_data.elems))
         IN IF prices = <<>> THEN Reply("data")
            ELSE [kind |-> "data",
                  lowest |-> SubSeq(prices, 1, Min(10, Len(prices))),
                  stats |-> [lowest |-> prices[1],
                             highest |-> prices[Len(prices)],
                             average |-> SumSeq(prices) \div Len(prices),
                             total |-> Len(prices)]]

\* (mutant) the lookup is tested with "is None"
NotFound_IsNone(v) == v = None

\* if not profile_data / faction_data / item_info / player_info
NotFound(v) == ~TruthyData(v)

\* profile after its lookup
ProfileReply(profile_data) ==
    IF NotFound(profile_data) THEN Reply("not_found")
    ELSE IF profile_data.type # "dict" THEN Reply("error")
    ELSE IF "faction" \in profile_data.items
    THEN IF profile_data.at.type = "dict" THEN Reply("data")
         ELSE Reply("error")
    ELSE Reply("data")

\* faction after its two lookups
FactionReply(faction_data, members_data) ==
    IF NotFound(faction_data) THEN Reply("not_found")
    ELSE IF faction_data.type # "dict" THEN Reply("error")
    ELSE IF TruthyData(members_data) /\ members_data.type # "dict"
    THEN Reply("error")
    ELSE Reply("data")

\* prices after its two lookups
PricesReply(item_info, market_data) ==
    IF NotFound(item_info) THEN Reply("not_found")
    ELSE IF item_info.type # "dict" THEN Reply("error")
    ELSE PricesEmbed(market_data)

\* bazaar after its two lookups
BazaarReply(player_info, bazaar_items) ==
    IF NotFound(player_info) THEN Reply("not_found")
    ELSE IF player_info.type # "dict" THEN Reply("error")
    ELSE IF ~TruthyData(bazaar_items) THEN Reply("data")
    ELSE IF bazaar_items.type # "list" THEN Reply("error")
    ELSE IF \E i \in 1 .. Len(bazaar_items.elems) :
                ~bazaar_items.elems[i].isdict
    THEN Reply("error")
    ELSE Reply("data")

\* what a lookup hands back to the command
LookupResults(op) ==
    {Raise("CancelledError")} \cup
    CASE op \in {"get_user_profile", "get_faction_info"} ->
            {Return(None), Return(EmptyDict), Return(Entry),
             Return(Val("list", {}, <<NotADict>>)),
             Return(Payload("faction", Entry)),
             Return(Payload("faction", None))}
      [] op = "get_faction_members" ->
            {Return(EmptyDict), Return(Val("dict", {"7"}, <<>>)),
             Return(Val("list", {}, <<NotADict>>)), Return(None)}
      [] op = "get_item_info" ->
            {Return(None), Return(EmptyDict), Return(Entry),
             Return(Val("list", {}, <<NotADict>>))}
      [] op = "get_item_market" ->
            {Return(Val("list", {}, f)) :
                f \in SeqsUpTo(PricedListings, MaxFeed)}
      [] OTHER ->
            {Return(EmptyList), Return(None), Return(Entry),
             Return(Val("list", {}, <<NotAListing>>)),
             Return(Val("list", {}, <<[isdict |-> TRUE, cost |-> Num(50),
                                       price |-> NoField]>>))}

\* what the pipeline holds after the lookup that request r carried.  The
\* command has found a key, so the call went on to the limiter; a lookup
\* that returned was granted a token, a cancelled one perhaps not; after
\* the grant the session is there and the request may have been sent.
\* The token may be back by the time the lookup ends.
PipelinePass(r, res) ==
    /\ calls' = [calls EXCEPT ![r] = @ + 1]
    /\ \E g \in BOOLEAN, s \in BOOLEAN :
          /\ res.k = "ret" => g
          /\ s => g
          /\ grantSeq' = IF g THEN Append(grantSeq, r) ELSE grantSeq
          /\ tokens' \in IF g THEN 0 .. Capacity ELSE {tokens}
          /\ IF s /\ NeedsNew(session, sessions)
             THEN /\ sessions' = Append(sessions, "open")
                  /\ session' = Len(sessions) + 1
             ELSE UNCHANGED <<session, sessions>>
          /\ sent' = [sent EXCEPT ![r] = IF s THEN 1 ELSE 0]
    /\ UNCHANGED <<api_key, refills, queue, recent, pc, callVars, last,
                   closeRaised, params, adapterVars>>

\* the lookups made so far have all returned
Returned == \A n \in 1 .. Len(looked) : looked[n].k = "ret"

CommandInit ==
    /\ api_key \in KeyValues
    /\ tokens = Capacity
    /\ refills = <<>>
    /\ queue = <<>>
    /\ session = 0
    /\ sessions = <<>>
    /\ pc = [r \in Req |-> "idle"]
    /\ elapsed = [r \in Req |-> 0]
    /\ sess = [r \in Req |-> 0]
    /\ last = Nothing
    /\ recent = <<>>
    /\ grantSeq = <<>>
    /\ closeRaised = FALSE
    /\ calls = [r \in Req |-> 0]
    /\ sent = [r \in Req |-> 0]
    /\ params = [r \in Req |-> {}]
    /\ adapter = "none"
    /\ arg = "None"
    /\ apc = "off"
    /\ outs = <<>>
    /\ ares = NotEnded
    /\ command \in Commands
    /\ cpc = "start"
    /\ looked = <<>>
    /\ replies = <<>>

\* the command up to its first lookup: the test of config.TORN_API_KEY
\* (the value that TornAPI holds as api_key), then the call of the
\* operation, which raises AttributeError when TornAPI has none of that
\* name; the except clause of the command then sends the error embed
CommandBegin ==
    /\ cpc = "start"
    /\ IF ~Truthy(api_key)
       THEN cpc' = "done" /\ replies' = <<Reply("key_required")>>
       ELSE IF MainLookup(command) \notin TornApiOperations
       THEN cpc' = "done" /\ replies' = <<Reply("error")>>
       ELSE cpc' = "lookup1" /\ replies' = replies
    /\ UNCHANGED <<command, looked>>
    /\ UNCHANGED <<adapterVars, countVars, api_key, limiterVars, sessionVars,
                   pc, callVars, last, closeRaised>>

\* the main lookup ends.  A cancellation leaves the command as
\* CancelledError; profile replies; the other commands call the second
\* operation
CommandLookup1 ==
    /\ cpc = "lookup1"
    /\ \E res \in LookupResults(MainLookup(command)) :
          /\ looked' = <<res>>
          /\ PipelinePass(1, res)
          /\ IF res.k = "exc"
             THEN cpc' = "done" /\ replies' = replies
             ELSE IF command = "profile"
             THEN cpc' = "done" /\ replies' = <<ProfileReply(res.v)>>
             ELSE cpc' = "lookup2" /\ replies' = replies
    /\ UNCHANGED command

\* the second lookup ends and the command replies
CommandLookup2 ==
    /\ cpc = "lookup2"
    /\ \E res \in LookupResults(SecondLookup(command)) :
          /\ looked' = Append(looked, res)
          /\ PipelinePass(2, res)
          /\ cpc' = "done"
          /\ replies' =
                IF res.k = "exc" THEN replies
                ELSE CASE command = "faction" ->
                            <<FactionReply(looked[1].v, res.v)>>
                       [] command = "prices" ->
                            <<PricesReply(looked[1].v, res.v)>>
                       [] OTHER -> <<BazaarReply(looked[1].v, res.v)>>
    /\ UNCHANGED command

CommandNext == CommandBegin \/ CommandLookup1 \/ CommandLookup2

CommandSpec == CommandInit /\ [][CommandNext]_vars

(***************************************************************************)
(* Claims.                                                                 *)
(***************************************************************************)
Granted(r) == pc[r] \in {"granted", "inflight", "done"}

\* C1: while no authentication key is configured every pipeline call
\* returns the sentinel None at once: acquire() is never called, no token
\* is consumed, no session is created or obtained, nothing is dispatched.
C1_NoKeyReturnsNoneAtOnce ==
    ~Truthy(api_key) =>
        /\ tokens = Capacity /\ refills = <<>> /\ queue = <<>>
        /\ grantSeq = <<>> /\ recent = <<>>
        /\ session = 0 /\ sessions = <<>>
        /\ \A r \in Req : pc[r] \in {"idle", "done"} /\ sess[r] = 0
        /\ last.out # NoOutcome =>
              last.out = NoKeyOutcome /\ last.result = Return(None)

\* every call was made with the key set to the empty string
C1_Witness ==
    /\ api_key = ""
    /\ \A r \in Req : pc[r] = "done"
    /\ last.result = Return(None)

\* C2: no more than Capacity acquisitions complete within any interval of
\* W seconds.  recent holds the acquisitions completed less than W seconds
\* ago, so the interval that ends now is the fullest one containing the
\* latest acquisition.
C2_AtMostCapacityPerWindow == Len(recent) <= Capacity

\* more callers than the capacity were granted, so one was delayed
C2_Witness ==
    /\ Len(grantSeq) > Capacity
    /\ \E i \in DOMAIN grantSeq : grantSeq[i].waited
    /\ Len(recent) = Capacity

\* C3: acquire() returns to its callers in the order they called it: no
\* call is granted before a call that called acquire() earlier, granted
\* or still queued.
C3_GrantedInCallOrder ==
    /\ \A i, j \in DOMAIN grantSeq : i < j => grantSeq[i].r < grantSeq[j].r
    /\ \A i \in DOMAIN grantSeq :
          \A j \in DOMAIN queue : grantSeq[i].r < queue[j]
    /\ \A i, j \in DOMAIN queue : i < j => queue[i] < queue[j]

\* two callers that were suspended together have both been granted
C3_Witness ==
    \E i, j \in DOMAIN grantSeq :
        /\ i < j
        /\ grantSeq[i].waited
        /\ grantSeq[j].waited

\* C4: acquire() only delays: every caller suspended in the queue is
\* eventually granted a token, given that time advances.
C4_EveryWaiterIsGranted ==
    \A r \in Req : (pc[r] = "waiting") ~> Granted(r)

\* the last call made was suspended and has been granted
C4_Witness ==
    /\ Len(grantSeq) = NReq
    /\ grantSeq[NReq].r = NReq
    /\ grantSeq[NReq].waited

OpenSessions == {i \in DOMAIN sessions : sessions[i] = "open"}

\* C5: at most one session handle is open, it is the cached one, every
\* call in flight over an open handle uses it, and _get_session
\* constructs a handle only when the cached one is absent or closed.
C5_AtMostOneLiveSession ==
    /\ Cardinality(OpenSessions) <= 1
    /\ OpenSessions \subseteq {session}
    /\ \A r \in Req :
          (pc[r] = "inflight" /\ sessions[sess[r]] = "open")
              => sess[r] = session
    /\ ~NeedsNew(session, sessions) =>
          _get_session(session, sessions)
              = [session |-> session, sessions |-> sessions]

\* two calls are in flight at once over the one open handle
C5_Witness ==
    \E a, b \in Req :
        /\ a # b
        /\ pc[a] = "inflight" /\ pc[b] = "inflight"
        /\ sess[a] = session /\ sess[b] = session
        /\ sessions[session] = "open"
        /\ Len(sessions) = 1

\* C6: once close() has closed the cached handle, _get_session constructs
\* and caches a new open handle distinct from every earlier one, and no
\* call is dispatched over a handle that is closed when session.get runs.
C6_ClosedHandleIsReplaced ==
    /\ (session # 0 /\ sessions[session] = "closed") =>
          LET g == _get_session(session, sessions)
          IN /\ g.session \notin DOMAIN sessions
             /\ g.sessions[g.session] = "open"
             /\ \A i \in DOMAIN sessions : g.sessions[i] = sessions[i]
    /\ last.out # SessionClosedOutcome
    /\ \A r \in Req : pc[r] = "inflight" => sess[r] \in DOMAIN sessions

\* a call is in flight over the second handle after the first was closed
C6_Witness ==
    /\ Len(sessions) >= 2
    /\ sessions[1] = "closed"
    /\ session = 2
    /\ sessions[2] = "open"
    /\ \E r \in Req : pc[r] = "inflight" /\ sess[r] = 2

\* C7: close() closes the cached handle if it is open and leaves the
\* other handles alone; with no handle, or a closed one, it changes
\* nothing and does not raise; a second close() changes nothing more.
C7_CloseIsIdempotent ==
    LET c1 == close(session, sessions)
        c2 == close(c1.session, c1.sessions)
    IN /\ ~closeRaised
       /\ ~c1.raised
       /\ c2 = c1
       /\ NeedsNew(session, sessions) =>
             c1.session = session /\ c1.sessions = sessions
       /\ ~NeedsNew(session, sessions) =>
             /\ c1.session = session
             /\ c1.sessions[session] = "closed"
             /\ \A i \in DOMAIN sessions :
                   i # session => c1.sessions[i] = sessions[i]

\* the cached handle has been closed while a call was using it
C7_Witness ==
    /\ session # 0
    /\ sessions[session] = "closed"
    /\ \E r \in Req : pc[r] = "inflight" /\ sess[r] = session

HasErrorKey(b) == b.type = "dict" /\ "error" \in b.items

\* C8: a response whose decoded payload has a top-level error key is
\* never returned as a payload: the call returns None, with status 200
\* as with any other.
C8_ErrorPayloadGivesNone ==
    (last.out.kind = "response" /\ HasErrorKey(last.out.body))
        => last.result = Return(None)

\* a 200 response carrying an error key ended in None
C8_Witness ==
    /\ last.out = Response(200, DictError)
    /\ last.result = Return(None)

\* C9: a response whose status is not 200 gives None whatever its body;
\* a payload is returned only for status 200 and a body without an error
\* key, and it is that body.
C9_Non200GivesNone ==
    /\ (last.out.kind = "response" /\ last.out.status # 200)
          => last.result = Return(None)
    /\ (last.result.k = "ret" /\ last.result.v # None) =>
          /\ last.out.kind = "response"
          /\ last.out.status = 200
          /\ "error" \notin last.out.body.items
          /\ last.result.v = last.out.body

\* a 201 response with a well-formed body ended in None
C9_Witness ==
    /\ last.out = Response(201, DictOk)
    /\ last.result = Return(None)

DispatchFailure(o) ==
    \/ o.kind \in {"timeout", "connerror", "sessionerror", "sessionclosed"}
    \/ /\ o.kind = "response"
       /\ o.status = 200
       /\ o.body.type \notin {"dict", "list"}

\* C10: a timeout, a connection failure, an undecodable response and a
\* failure to obtain the session all end in None; _make_request raises
\* nothing but the cancellation of its own task.
C10_DispatchFailuresAreCaught ==
    /\ DispatchFailure(last.out) => last.result = Return(None)
    /\ last.result.k = "exc" => last.out.kind = "cancelled"

\* an undecodable 200 response ended in None
C10_Witness ==
    /\ last.out = Response(200, Malformed)
    /\ last.result = Return(None)

\* the invocation has ended, and the pipeline call it made last
Done == apc = "done"
LastOut == outs[Len(outs)]

\* C11 as stated: every public operation returns a value and never raises
\* into its caller, whatever the pipeline, the session and the payload do.
C11_NeverRaises == Done => ares.ret.k = "ret"

\* C11 (amended): a public operation raises into its caller only when the
\* task is cancelled while a pipeline call is in flight, and then it raises
\* asyncio.CancelledError; for every other outcome of the pipeline, every
\* state of the session and every shape of payload it returns a value.
C11_RaisesOnlyCancellation ==
    Done =>
        IF adapter # "close" /\ LastOut = CancelledOutcome
        THEN ares.ret = Raise("CancelledError")
        ELSE ares.ret.k = "ret"

\* get_faction_members was handed a list, data.get raised AttributeError and
\* the operation returned all the same
C11_Witness ==
    /\ Done
    /\ adapter = "get_faction_members"
    /\ LastOut = Response(200, Val("list", {}, <<NotADict>>))
    /\ ares.errors = 1
    /\ ares.ret.k = "ret"

\* the nth pipeline call of the invocation gave no data: it returned the
\* sentinel, or a payload without the key that the operation projects
Projects(op) == op \notin {"get_user_profile", "get_faction_info"}
NoData(n) ==
    LET p == PipelineResult(outs[n])
    IN \/ p = Return(None)
       \/ /\ Projects(adapter)
          /\ p.k = "ret"
          /\ p.v.type = "dict"
          /\ ProjectedKey(adapter, n) \notin p.v.items

\* what an operation returns for "no data"
NoDataValue(op) ==
    CASE op \in {"get_user_profile", "get_faction_info"} -> None
      [] op \in {"get_faction_members", "get_item_info"} -> EmptyDict
      [] OTHER -> EmptyList

\* C12: whenever every pipeline call of an operation returns the sentinel
\* or a payload lacking the projected field, the operation returns None
\* (get_user_profile, get_faction_info), an empty mapping
\* (get_faction_members, get_item_info) or an empty sequence
\* (get_item_market, get_player_bazaar).
C12_NoDataGivesNoneOrEmpty ==
    (Done /\ adapter \in Adapters /\ \A n \in 1 .. Len(outs) : NoData(n))
        => ares.ret = Return(NoDataValue(adapter))

\* get_faction_members after a timeout: the empty mapping
C12_Witness ==
    /\ Done
    /\ adapter = "get_faction_members"
    /\ LastOut = TimeoutOutcome
    /\ NoData(1)
    /\ ares = Ended(Return(EmptyDict), 0)

(***************************************************************************)
(* The market normaliser, as the claims describe it.                       *)
(***************************************************************************)
IsMarket == adapter = "get_item_market"

\* the identifier of a listing: the value of the first of item_id, ID,
\* itemID that is not null
ListingId(item) ==
    IF item.item_id # "None" THEN item.item_id
    ELSE IF item.ID # "None" THEN item.ID
    ELSE item.itemID

\* the listings of a feed for id, in feed order
ListingsFor(feed, id) ==
    SelectSeq(feed, LAMBDA item : item.isdict /\ ListingId(item) = id)

\* the primary request has ended without a cancellation, and its feed
PrimaryEnded == IsMarket /\ Done /\ PipelineResult(outs[1]).k = "ret"
Primary == PrimaryFeed(PipelineResult(outs[1]).v)

\* the secondary request has ended without a cancellation, and its feed
SecondaryEnded == Len(outs) = 2 /\ PipelineResult(outs[2]).k = "ret"
Secondary ==
    LET data == PipelineResult(outs[2]).v
    IN IF data.type = "dict" /\ "bazaar" \in data.items
       THEN IF data.at.type = "list" THEN data.at.elems ELSE <<>>
       ELSE <<>>
BazaarFor(feed, id) ==
    SelectSeq(feed, LAMBDA item : item.isdict /\ item.ID = id)

\* the listings of the primary feed that the operation selected
PrimarySelected ==
    IF Len(outs) = 1 /\ ares.ret.k = "ret"
    THEN {ares.ret.v.elems[i] : i \in 1 .. Len(ares.ret.v.elems)}
    ELSE {}

\* C13 as stated: when the primary feed holds at least one listing whose
\* identifier equals the requested id, get_item_market returns exactly the
\* listings of the primary feed with that identifier, in feed order, and
\* the secondary endpoint is not queried.
C13_PrimaryListingsReturned ==
    (PrimaryEnded /\ ListingsFor(Primary, arg) # <<>>) =>
        /\ Len(outs) = 1
        /\ ares.ret = Return(Val("list", {}, ListingsFor(Primary, arg)))

\* C14 as stated: when the primary feed holds no listing for the requested
\* id, the secondary (bazaar) endpoint is queried and the result is exactly
\* the secondary listings whose ID equals the requested id.
C14_FallbackListingsReturned ==
    (PrimaryEnded /\ ListingsFor(Primary, arg) = <<>>) =>
        /\ Len(outs) = 2
        /\ SecondaryEnded =>
              ares.ret = Return(Val("list", {}, BazaarFor(Secondary, arg)))

\* neither endpoint yields a listing for the requested id
NoListingAnywhere ==
    /\ ListingsFor(Primary, arg) = <<>>
    /\ Len(outs) = 2 => BazaarFor(Secondary, arg) = <<>>

\* C15 as stated: when neither endpoint yields a listing for the requested
\* id the result is the empty sequence, returned normally; and the result
\* is empty only in that case.
C15_EmptyIffNoListing ==
    (PrimaryEnded /\ (Len(outs) = 2 => SecondaryEnded)) =>
        (NoListingAnywhere <=> ares.ret = Return(EmptyList))

\* C16 as stated: a listing of the primary feed is selected exactly when
\* its identifier, the first non-null value among item_id, ID and itemID,
\* equals the requested id; for every listing and every id, 0 included.
C16_FirstNonNullIdentifier ==
    PrimaryEnded =>
        \A i \in 1 .. Len(Primary) :
            Primary[i].isdict =>
                (Primary[i] \in PrimarySelected
                    <=> ListingId(Primary[i]) = arg)

\* the listing whose only identifier field is item_id, with the value v
UnderItemId(v) ==
    [isdict |-> TRUE, item_id |-> v, ID |-> "None", itemID |-> "None"]
\* the listing names its identifier under ID only, or under itemID only
OnlyLaterField(item) ==
    /\ item.isdict
    /\ item.item_id = "None"
    /\ (item.ID = "None") # (item.itemID = "None")

\* C17 as stated: a listing of the primary feed that names its identifier
\* only under ID, or only under itemID, is selected exactly when the
\* listing naming the same identifier under item_id would be.
C17_LaterFieldsMatchAlike ==
    PrimaryEnded =>
        \A i \in 1 .. Len(Primary) :
            OnlyLaterField(Primary[i]) =>
                (Primary[i] \in PrimarySelected
                    <=> PrimaryMatch(UnderItemId(ListingId(Primary[i])), arg))

\* C18: nothing is retried.  A pipeline call sends at most one request
\* to the network, a call that has failed is over (it is not dispatched a
\* second time), and an invocation of get_user_profile, get_faction_info,
\* get_faction_members, get_item_info or get_player_bazaar makes exactly
\* one pipeline call.
C18_NoRetry ==
    \A r \in Req :
        /\ sent[r] <= 1
        /\ calls[r] = IF pc[r] = "idle" THEN 0 ELSE 1
        /\ pc[r] \in {"idle", "waiting", "granted"} => sent[r] = 0
        /\ pc[r] = "inflight" => sent[r] = 1

\* the last of the calls has just timed out; each call has sent its one
\* request and none is being tried again
C18_Witness ==
    /\ last = [out |-> TimeoutOutcome, result |-> Return(None)]
    /\ \A r \in Req : pc[r] = "done" /\ sent[r] = 1 /\ calls[r] = 1

\* the acquisitions granted to call r
GrantsOf(r) == {i \in 1 .. Len(grantSeq) : grantSeq[i].r = r}

\* C19: tokens are consumed by granted acquisitions only and are never
\* refunded.  Every pipeline call made with a key configured has consumed
\* exactly one token once acquire() has returned, and every token consumed
\* less than W seconds ago is still missing from the limiter, whether the
\* request succeeded, failed, timed out or was cancelled in flight.
C19_TokensNeverRefunded ==
    /\ tokens + Len(recent) = Capacity
    /\ refills = recent
    /\ \A r \in Req :
          Cardinality(GrantsOf(r)) =
              IF Truthy(api_key) /\ Granted(r) THEN 1 ELSE 0

\* a call has just been cancelled in flight: its token stays consumed and
\* the next caller is still waiting for one
C19_Witness ==
    /\ last = [out |-> CancelledOutcome, result |-> Raise("CancelledError")]
    /\ tokens = 0
    /\ Len(recent) = 1
    /\ queue # <<>>

\* C20: every failed pipeline call writes exactly one error record, where
\* the failure is detected (no key, a status other than 200, an error
\* payload, a timeout, any other exception), and the operation above adds
\* no error record for that failure.
C20_OneErrorRecordPerFailure ==
    /\ \A n \in 1 .. Len(outs) :
          PipelineResult(outs[n]) = Return(None) =>
              ErrorRecords(outs[n]) = 1
    /\ (Done /\ adapter \in Adapters
            /\ PipelineResult(LastOut) = Return(None)) => ares.errors = 0

\* get_item_market: the primary request got a status other than 200, the
\* fallback request an error payload; one record each, none from the
\* operation
C20_Witness ==
    /\ Done
    /\ IsMarket
    /\ outs = <<Response(500, DictOk), Response(200, DictError)>>
    /\ ErrorRecords(outs[1]) + ErrorRecords(outs[2]) = 2
    /\ ares = Ended(Return(EmptyList), 0)

\* the key parameters among the query parameters of call r
KeyParams(r) == {q \in params[r] : q[1] = "key"}

\* C21 as stated: every request that is dispatched carries exactly one key
\* parameter, equal to the configured key and added after the grant of the
\* rate limiter, and no log record of the layer contains the key.
C21_KeyOnceAndNeverLogged ==
    /\ \A r \in Req :
          /\ sent[r] = 1 => KeyParams(r) = {<<"key", api_key>>}
          /\ pc[r] \in {"idle", "waiting", "granted"} => KeyParams(r) = {}
    /\ last.out # NoOutcome =>
          \A part \in LoggedParts(last.out) :
              ~HoldsKey(part, DictSet(CallerParams, "key", api_key))

\* C23: within a pipeline call with a key the steps come in the order
\* Throttled, Dispatch, Classify.  A call that has not been granted a token
\* (it has not called acquire() yet, or waits in the queue of the limiter)
\* has sent nothing and holds no session; a session is created and a
\* request is sent only in a step of a call to which acquire() has
\* returned; and a call gets its result only after that.
C23_ThrottledThenDispatchThenClassify ==
    [][/\ \A r \in Req :
             pc'[r] \in {"idle", "waiting"} => sent'[r] = 0 /\ sess'[r] = 0
       /\ (Len(sessions') > Len(sessions) \/ sent' # sent) =>
             \E r \in Req :
                 /\ pc[r] = "granted" /\ GrantsOf(r) # {}
                 /\ pc'[r] \in {"inflight", "done"}
       /\ \A r \in Req :
             (Truthy(api_key) /\ pc[r] # "done" /\ pc'[r] = "done") =>
                 pc[r] \in {"granted", "inflight"}
      ]_vars

\* one call is in flight over the only session while another still waits
\* in the queue of the limiter, having sent nothing
C23_Witness ==
    /\ Len(sessions) = 1
    /\ \E r \in Req : pc[r] = "inflight" /\ sent[r] = 1
    /\ \E r \in Req : pc[r] = "waiting" /\ sent[r] = 0 /\ sess[r] = 0

\* C24 as stated: under any interleaving of close() with requests, the
\* handle over which a request was dispatched is not closed while that
\* request is still in flight.
C24_NotClosedWhileInFlight ==
    \A r \in Req : pc[r] = "inflight" => sessions[sess[r]] = "open"

\* C26 as stated: get_item_market makes exactly one pipeline request when
\* the primary response yields at least one listing for the requested id
\* and exactly two otherwise, also when the primary request failed or its
\* payload is not a list of listings; it never makes more than two.
C26_OneOrTwoRequests ==
    /\ IsMarket => Len(outs) <= 2
    /\ PrimaryEnded =>
          Len(outs) = IF ListingsFor(Primary, arg) # <<>> THEN 1 ELSE 2

\* the sentinel of the main lookup of a command: None, and for the prices
\* command also the empty dict that get_item_info gives for no data
SentinelOf(cmd) == IF cmd = "prices" THEN {None, EmptyDict} ELSE {None}
MainGaveSentinel ==
    /\ looked # <<>>
    /\ looked[1].k = "ret"
    /\ looked[1].v \in SentinelOf(command)

\* C22: when the main lookup of profile, faction, prices or bazaar has
\* returned the sentinel, the invocation renders no data embed, and once
\* it has ended its one reply is the not-found error embed (an invocation
\* cancelled in its second lookup ends without any reply).
C22_SentinelGivesNotFound ==
    MainGaveSentinel =>
        /\ \A n \in 1 .. Len(replies) : replies[n].kind # "data"
        /\ (cpc = "done" /\ Returned) => replies = <<Reply("not_found")>>
        /\ cpc = "done" => Len(replies) <= 1
C22_Witness ==
    /\ command = "prices"
    /\ cpc = "done"
    /\ Len(looked) = 2
    /\ looked[1] = Return(EmptyDict)
    /\ TruthyData(looked[2].v)
    /\ replies = <<Reply("not_found")>>

\* the market data that the prices command was given, once it has shown
\* the data embed
ShownPrices == command = "prices" /\ cpc = "done" /\ replies # <<>>
                  /\ replies[1].kind = "data"
Market == looked[2].v.elems
\* the listing has a number above zero as its price: as cost, or as price
\* when cost is missing or zero
PositivePrice(l) ==
    /\ l.isdict
    /\ IF l.cost.k = "int" /\ l.cost.n # 0 THEN l.cost.n > 0
       ELSE l.cost.k # "str" /\ l.price.k = "int" /\ l.price.n > 0
CountedListings == {i \in 1 .. Len(Market) : PositivePrice(Market[i])}

\* C25: in the embed of the prices command every price of the lowest-price
\* list and every statistic is above zero; the listings counted are those
\* with a price above zero and no other: their number is the total, the
\* list shows the ten lowest of them in rising order, and lowest and
\* highest are prices of counted listings that bound all of them.
C25_OnlyPositivePricesCounted ==
    ShownPrices =>
        LET e == replies[1]
            priceOf(i) == ListingPrice(Market[i]).n
        IN /\ \A n \in 1 .. Len(e.lowest) : e.lowest[n] > 0
           /\ e.stats.total = 0 => e.lowest = <<>> /\ e.stats = NoStats
           /\ e.lowest # <<>> =>
                 /\ e.stats.total = Cardinality(CountedListings)
                 /\ Len(e.lowest) = Min(10, e.stats.total)
                 /\ \A n \in 1 .. Len(e.lowest) - 1 :
                       e.lowest[n] <= e.lowest[n + 1]
                 /\ \A n \in 1 .. Len(e.lowest) :
                       \E i \in CountedListings : priceOf(i) = e.lowest[n]
                 /\ e.stats.lowest = e.lowest[1]
                 /\ e.stats.lowest > 0
                 /\ \E i \in CountedListings : priceOf(i) = e.stats.highest
                 /\ \A i \in CountedListings :
                       /\ e.stats.lowest <= priceOf(i)
                       /\ priceOf(i) <= e.stats.highest
                 /\ e.stats.lowest <= e.stats.average
                 /\ e.stats.average <= e.stats.highest
C25_Witness ==
    /\ ShownPrices
    /\ Len(Market) = 2
    /\ Market[1] = [isdict |-> TRUE, cost |-> Num(0 - 5), price |-> Num(50)]
    /\ Market[2] = [isdict |-> TRUE, cost |-> Num(0), price |-> Num(90)]
    /\ replies[1].lowest = <<90>>
    /\ replies[1].stats.total = 1

=============================================================================
